---- MODULE Spec2Model ----
(***************************************************************************)
(* A model of limpeza_david's scanning/deletion engine                     *)
(* (src/app/cleaner/windows.py, src/app/utils.py) and of the part of the   *)
(* Tkinter application that drives it (src/app/main.py).                   *)
(*                                                                         *)
(* Text.  A Python str is a sequence of tokens; a token is a run of        *)
(* characters that the program never cuts ("Windows", "exe", "thumbcache_")*)
(* and the characters the program does look at are tokens of their own:    *)
(* "." (suffix), "/" and "\\" (separators), "~" and "*" (glob patterns).   *)
(* A pathlib path is the sequence of its components, each a sequence of    *)
(* tokens; the drive-and-root ("C:\") is the first component.  The program *)
(* runs on Windows, so paths compare case-insensitively (PureWindowsPath). *)
(***************************************************************************)
EXTENDS Integers, Sequences, FiniteSets, TLC

VARIABLES
    \* --- one call of WindowsCleaner._is_safe_to_delete -------------------
    fPath,      \* the Path argument
    fFault,     \* the rule (1..3) whose evaluation raises, 0 when none does
    fResult,    \* what the caller observes: kind "none" before the call
    \* --- the filesystem and calls of scan_category / clean_files ---------
    fs,         \* node -> [kind, size, locked, ord, err]
    op,         \* the record of the last engine call
    nExt,       \* number of external filesystem changes so far
    cleaner,    \* the WindowsCleaner object: the roots __init__ resolved
    system,     \* platform.system() of the host
    \* --- LimpezaDavidApp (main.py) ---------------------------------------
    category_vars,  \* category id -> BOOLEAN, the check boxes
    scan_results,   \* the dict, as the sequence of its items in key order
    is_scanning,
    is_cleaning,
    scan_complete,
    clean_btn,      \* "normal" or "disabled"
    rescan_btn,     \* "normal" or "disabled"
    timers,         \* pending root.after(..., self._start_scan) callbacks
    dialog,         \* askyesno of the main thread: "none", "confirm" while it
                    \* is open, then the answer it returned: "yes", "no"
    scanT,          \* the scan worker thread: position and locals
    cleanT,         \* the clean worker thread: position and locals
    nToggle         \* number of check box clicks so far

filterVars  == <<fPath, fFault, fResult>>
cleanerVars == <<fs, op, nExt, cleaner, system>>
hostVars    == <<cleaner, system>>
appVars     == <<category_vars, scan_results, is_scanning, is_cleaning, scan_complete,
                 clean_btn, rescan_btn, timers, dialog, scanT, cleanT, nToggle>>
vars == <<fPath, fFault, fResult, fs, op, nExt, cleaner, system,
          category_vars, scan_results, is_scanning, is_cleaning, scan_complete,
          clean_btn, rescan_btn, timers, dialog, scanT, cleanT, nToggle>>

----------------------------------------------------------------------------
(* Strings and paths                                                       *)

Seps == {"/", "\\"}

\* str.lower() on one token; tokens without cased letters are not listed.
LowerTable ==
    [t \in {"C:", "D:", "Windows", "WINDOWS", "System32", "SysWOW64",
            "Program Files", "Program Files (x86)", "Users", "Documents",
            "Desktop", "Pictures", "Downloads", "AppData", "Local",
            "Roaming", "Temp", "Prefetch", "Logs", "My", "Backup", "App",
            "EXE", "Dll", "B", "TMP", "IconCache", "Explorer", "Microsoft",
            "Google", "Chrome", "User Data", "Default", "Cache",
            "Code Cache", "Edge", "Mozilla", "Firefox", "Profiles",
            "Recent", "PF"} |->
        CASE t = "C:" -> "c:"
          [] t = "D:" -> "d:"
          [] t \in {"Windows", "WINDOWS"} -> "windows"
          [] t = "System32" -> "system32"
          [] t = "SysWOW64" -> "syswow64"
          [] t = "Program Files" -> "program files"
          [] t = "Program Files (x86)" -> "program files (x86)"
          [] t = "Users" -> "users"
          [] t = "Documents" -> "documents"
          [] t = "Desktop" -> "desktop"
          [] t = "Pictures" -> "pictures"
          [] t = "Downloads" -> "downloads"
          [] t = "AppData" -> "appdata"
          [] t = "Local" -> "local"
          [] t = "Roaming" -> "roaming"
          [] t = "Temp" -> "temp"
          [] t = "Prefetch" -> "prefetch"
          [] t = "Logs" -> "logs"
          [] t = "My" -> "my"
          [] t = "Backup" -> "backup"
          [] t = "App" -> "app"
          [] t = "EXE" -> "exe"
          [] t = "Dll" -> "dll"
          [] t = "B" -> "b"
          [] t = "TMP" -> "tmp"
          [] t = "IconCache" -> "iconcache"
          [] t = "Explorer" -> "explorer"
          [] t = "Microsoft" -> "microsoft"
          [] t = "Google" -> "google"
          [] t = "Chrome" -> "chrome"
          [] t = "User Data" -> "user data"
          [] t = "Default" -> "default"
          [] t = "Cache" -> "cache"
          [] t = "Code Cache" -> "code cache"
          [] t = "Edge" -> "edge"
          [] t = "Mozilla" -> "mozilla"
          [] t = "Firefox" -> "firefox"
          [] t = "Profiles" -> "profiles"
          [] t = "Recent" -> "recent"
          [] t = "PF" -> "pf"]

Translate(table, t) == IF t \in DOMAIN table THEN table[t] ELSE t

LowerTok(t) == Translate(LowerTable, t)

\* str.lower()
Lower(s) == [i \in 1..Len(s) |-> LowerTok(s[i])]

\* The case-folded parts pathlib compares Windows paths by.
Fold(p) == [i \in 1..Len(p) |-> Lower(p[i])]

RECURSIVE SplitParts(_, _, _)
SplitParts(s, cur, acc) ==
    LET keep == IF cur = <<>> \/ cur = <<".">> THEN acc ELSE Append(acc, cur)
    IN  IF s = <<>> THEN keep
        ELSE IF Head(s) \in Seps THEN SplitParts(Tail(s), <<>>, keep)
        ELSE SplitParts(Tail(s), Append(cur, Head(s)), acc)

\* Path(str): split on either separator, drop empty and "." components.
Path(s) == SplitParts(s, <<>>, <<>>)

IsDrive(c) == c \in {<<"C:">>, <<"D:">>, <<"c:">>, <<"d:">>}
IsAbs(p) == Len(p) > 0 /\ IsDrive(p[1])

RECURSIVE JoinParts(_, _)
JoinParts(p, i) ==
    IF i > Len(p) THEN <<>>
    ELSE (IF i = 1 THEN <<>> ELSE <<"\\">>) \o p[i] \o JoinParts(p, i + 1)

\* str(path)
StrOf(p) ==
    IF p = <<>> THEN <<".">>
    ELSE IF Len(p) = 1 /\ IsAbs(p) THEN p[1] \o <<"\\">>
    ELSE JoinParts(p, 1)

\* path / "rel/ative"
Join(p, s) == p \o Path(s)

\* path.parents, as the set `in` searches
Parents(p) ==
    {SubSeq(p, 1, k) : k \in (IF IsAbs(p) THEN 1 ELSE 0)..(Len(p) - 1)}

\* path.name
Name(p) == IF Len(p) = 0 \/ (Len(p) = 1 /\ IsAbs(p)) THEN <<>> ELSE p[Len(p)]

\* str.rfind('.') as a token index, 0 when there is no dot
RFindDot(n) ==
    LET dots == {i \in 1..Len(n) : n[i] = "."}
    IN  IF dots = {} THEN 0 ELSE CHOOSE i \in dots : \A j \in dots : j <= i

\* path.suffix: the last dot and what follows it, unless the dot is the
\* first or the last character of the name
Suffix(p) ==
    LET n == Name(p)
        i == RFindDot(n)
    IN  IF 1 < i /\ i < Len(n) THEN SubSeq(n, i, Len(n)) ELSE <<>>

\* needle in haystack (str.__contains__)
Contains(hay, needle) ==
    \E i \in 1..(Len(hay) - Len(needle) + 1) :
        SubSeq(hay, i, i + Len(needle) - 1) = needle

----------------------------------------------------------------------------
(* WindowsCleaner.__init__                                                 *)

\* The values of Path.home() and of the three environment variables on the
\* reference host, and the directory the program is started in.
user_home      == Path(<<"C:", "/", "Users", "/", "u">>)
local_app_data == Path(<<"C:", "\\", "Users", "\\", "u", "\\", "AppData", "\\", "Local">>)
app_data       == Path(<<"C:", "\\", "Users", "\\", "u", "\\", "AppData", "\\", "Roaming">>)
temp_dir       == Path(<<"C:", "\\", "Users", "\\", "u", "\\", "AppData", "\\", "Local", "\\", "Temp">>)

cwd == user_home

\* os.environ of the reference host, and the environments that lack some of
\* the three variables.
HostEnviron ==
    [TEMP |-> StrOf(temp_dir), LOCALAPPDATA |-> StrOf(local_app_data),
     APPDATA |-> StrOf(app_data)]

Environs == {[k \in S |-> HostEnviron[k]] : S \in SUBSET DOMAIN HostEnviron}

\* os.environ.get(name, '')
EnvGet(environ, name) == IF name \in DOMAIN environ THEN environ[name] ELSE <<>>

\* __init__: self.temp_dir, self.local_app_data, self.app_data
WindowsCleaner(environ) ==
    [temp_dir       |-> Path(EnvGet(environ, "TEMP")),
     local_app_data |-> Path(EnvGet(environ, "LOCALAPPDATA")),
     app_data       |-> Path(EnvGet(environ, "APPDATA"))]

protected_dirs ==
    { Path(<<"C:", "/", "Windows", "/", "System32">>),
      Path(<<"C:", "/", "Windows", "/", "SysWOW64">>),
      Path(<<"C:", "/", "Program Files">>),
      Path(<<"C:", "/", "Program Files (x86)">>),
      Join(user_home, <<"Documents">>),
      Join(user_home, <<"Desktop">>),
      Join(user_home, <<"Pictures">>),
      Join(user_home, <<"Downloads">>) }

protected_extensions ==
    { <<".", e>> : e \in {"exe", "dll", "sys", "msi", "bat", "cmd", "ps1",
                          "doc", "docx", "xls", "xlsx", "pdf", "ppt", "pptx"} }

----------------------------------------------------------------------------
(* WindowsCleaner._is_safe_to_delete                                       *)

\* The case-folded parts of the protected directories (pathlib's _cparts).
ProtectedCParts == {Fold(protected) : protected \in protected_dirs}

\* Mutant: only the path itself and its direct parent are compared.
InProtected_DirectParentOnly(cparts) ==
    \E protected \in ProtectedCParts :
        \/ cparts = protected
        \/ Len(cparts) > 1 /\ SubSeq(cparts, 1, Len(cparts) - 1) = protected

\* path == protected or protected in path.parents, on case-folded parts:
\* Windows paths are equal when their case-folded parts are.
InProtected(cparts) ==
    \E protected \in ProtectedCParts :
        cparts = protected \/ protected \in Parents(cparts)

\* for protected in self.protected_dirs:
\*     if path == protected or protected in path.parents: return False
Rule1(path) == InProtected(Fold(path))

\* Mutant: the suffix is compared as written, without .lower().
Rule2_NoLower(path) == Suffix(path) \in protected_extensions

\* if path.suffix.lower() in self.protected_extensions: return False
Rule2(path) == Lower(Suffix(path)) \in protected_extensions

\* if 'Windows\\System32' in str(path) or 'Windows\\SysWOW64' in str(path)
Rule3(path) ==
    \/ Contains(StrOf(path), <<"Windows", "\\", "System32">>)
    \/ Contains(StrOf(path), <<"Windows", "\\", "SysWOW64">>)

Return(v) == [kind |-> "return", val |-> v]
Raise     == [kind |-> "raise", val |-> FALSE]
NoCall    == [kind |-> "none", val |-> FALSE]

\* The try block: the three rules in order; `fault` names the rule whose
\* evaluation raises (0: none).
SafeBody(path, fault) ==
    IF fault = 1 THEN Raise
    ELSE IF Rule1(path) THEN Return(FALSE)
    ELSE IF fault = 2 THEN Raise
    ELSE IF Rule2(path) THEN Return(FALSE)
    ELSE IF fault = 3 THEN Raise
    ELSE IF Rule3(path) THEN Return(FALSE)
    ELSE Return(TRUE)

\* Mutant: the handler answers True (fail-open).
SafeHandler_FailOpen(outcome) ==
    IF outcome.kind = "raise" THEN Return(TRUE) ELSE outcome

\* except Exception: return False
SafeHandler(outcome) ==
    IF outcome.kind = "raise" THEN Return(FALSE) ELSE outcome

\* What a caller of _is_safe_to_delete observes.
SafeCall(path, fault) == SafeHandler(SafeBody(path, fault))

\* _is_safe_to_delete on a pathlib.Path, whose attributes never raise.
_is_safe_to_delete(path) == SafeCall(path, 0).val

----------------------------------------------------------------------------
(* Inputs of the Safety Filter                                             *)

FilterDirs ==
    protected_dirs \cup
    { Path(<<"c:", "/", "windows", "/", "system32">>),
      Path(<<"C:", "/", "WINDOWS", "/", "SysWOW64", "/", "drivers">>),
      Path(<<"C:", "/", "Program Files", "/", "App">>),
      Join(user_home, <<"Desktop", "/", "sub", "/", "deep">>),
      Join(user_home, <<"documents">>),
      Path(<<"D:", "/", "Backup", "/", "Windows", "/", "System32">>),
      Path(<<"D:", "/", "My", "Windows", "/", "System32", "x">>),
      Path(<<"D:", "/", "windows", "/", "system32">>),
      Path(<<"C:", "/", "Windows", "/", "Temp">>),
      Path(<<"C:", "/", "Windows">>),
      Path(<<"C:", "/">>),
      Path(<<>>),
      user_home, temp_dir, local_app_data }

FilterNames ==
    { <<>>,
      <<"a", ".", "tmp">>, <<"b", ".", "exe">>, <<"B", ".", "EXE">>,
      <<"r", ".", "Dll">>, <<".", "exe">>, <<"b", ".", "exe", ".">>,
      <<"notes">>, <<"a", ".", "pdf", ".", "bak">>, <<"a", ".", ".", "docx">>,
      <<"~", "x", ".", "tmp">> }

FilterInputs ==
    { IF n = <<>> THEN d ELSE Append(d, n) : d \in FilterDirs, n \in FilterNames }

FilterFaults == 0..3

FilterInit ==
    /\ fPath \in FilterInputs
    /\ fFault \in FilterFaults
    /\ fResult = NoCall

FilterCall ==
    /\ fResult = NoCall
    /\ fResult' = SafeCall(fPath, fFault)
    /\ UNCHANGED <<fPath, fFault, cleanerVars, appVars>>

FilterIdle == fPath = <<>> /\ fFault = 0 /\ fResult = NoCall

----------------------------------------------------------------------------
(* The filesystem                                                          *)

\* The directories the scan procedures name (windows.py, lines 193-275).
windows_temp      == Path(<<"C:", "/", "Windows", "/", "Temp">>)
prefetch_dir      == Path(<<"C:", "/", "Windows", "/", "Prefetch">>)
windows_logs      == Path(<<"C:", "/", "Windows", "/", "Logs">>)
chrome_cache(local) == Join(local, <<"Google", "/", "Chrome", "/", "User Data", "/", "Default", "/", "Cache">>)
chrome_code_cache(local) == Join(local, <<"Google", "/", "Chrome", "/", "User Data", "/", "Default", "/", "Code Cache">>)
edge_cache(local) == Join(local, <<"Microsoft", "/", "Edge", "/", "User Data", "/", "Default", "/", "Cache">>)
edge_code_cache(local) == Join(local, <<"Microsoft", "/", "Edge", "/", "User Data", "/", "Default", "/", "Code Cache">>)
firefox_profiles(local) == Join(local, <<"Mozilla", "/", "Firefox", "/", "Profiles">>)
thumbnail_cache(local) == Join(local, <<"Microsoft", "/", "Windows", "/", "Explorer">>)
icon_cache(local) == Join(local, <<"IconCache", ".", "db">>)
recent_dir(roaming) == Join(roaming, <<"Microsoft", "/", "Windows", "/", "Recent">>)

\* The state of a name: its kind, the size and the in-use flag of a file,
\* its place in the order in which the operating system lists names, and the
\* error the operating system answers with when the name is read: os.stat
\* of a file, os.scandir of a directory.  "perm" is PermissionError, "io" any
\* other OSError (the directory vanished, the device failed, the name is
\* too long).
Absent   == [kind |-> "absent", size |-> 0, locked |-> FALSE, ord |-> 0, err |-> "none"]
Dir      == [kind |-> "dir", size |-> 0, locked |-> FALSE, ord |-> 0, err |-> "none"]
File(n)  == [kind |-> "file", size |-> n, locked |-> FALSE, ord |-> 0, err |-> "none"]

\* The host's files when the program starts, in the order the operating
\* system lists them.  Every ancestor of an entry is a directory.  An entry
\* of kind "absent" is a name that does not exist yet.
FsLeaves ==
    << [p |-> Join(temp_dir, <<"a", ".", "dat">>),              st |-> File(2048)],
       [p |-> Join(temp_dir, <<"setup", ".", "exe">>),          st |-> File(100)],
       [p |-> Join(temp_dir, <<"~", "x", ".", "tmp">>),         st |-> File(5)],
       [p |-> Join(temp_dir, <<"sub", "/", "d", ".", "log">>),  st |-> File(3)],
       [p |-> Join(temp_dir, <<"sub", "/", "k", ".", "EXE">>),  st |-> File(70)],
       [p |-> Join(temp_dir, <<"c", ".", "tmp">>),              st |-> File(20)],
       [p |-> Join(temp_dir, <<"c", ".", "tmp", "/", "keep", ".", "pdf">>), st |-> Absent],
       [p |-> Join(temp_dir, <<"Windows", "/", "System32", "/", "w", ".", "old">>), st |-> File(6)],
       [p |-> icon_cache(local_app_data),                                       st |-> File(64)],
       [p |-> Join(local_app_data, <<"app", ".", "log">>),      st |-> File(7)],
       [p |-> Join(chrome_cache(local_app_data), <<"f_1">>),                    st |-> File(50)],
       [p |-> edge_cache(local_app_data),                                       st |-> Absent],
       [p |-> Join(firefox_profiles(local_app_data), <<"profiles", ".", "ini">>), st |-> File(2)],
       [p |-> Join(firefox_profiles(local_app_data), <<"p1", "/", "cache2", "/", "e1">>), st |-> File(40)],
       [p |-> Join(thumbnail_cache(local_app_data), <<"thumbcache_", "32", ".", "db">>), st |-> File(30)],
       [p |-> Join(thumbnail_cache(local_app_data), <<"thumbcache_", "idx", ".", "db">>), st |-> Dir],
       [p |-> Join(recent_dir(app_data), <<"doc", ".", "lnk">>),           st |-> File(1)],
       [p |-> Join(user_home, <<"notes", ".", "old">>),         st |-> File(10)],
       [p |-> Join(user_home, <<"Documents", "/", "thesis", ".", "bak">>), st |-> File(300)],
       [p |-> Join(windows_temp, <<"t", ".", "dat">>),          st |-> File(9)],
       [p |-> Join(prefetch_dir, <<"APP", ".", "PF">>),         st |-> File(11)],
       [p |-> Join(prefetch_dir, <<"layout", ".", "ini">>),     st |-> File(4)],
       [p |-> Join(windows_logs, <<"w", ".", "log">>),          st |-> File(8)],
       [p |-> Join(temp_dir, <<"z", "/", "e", ".", "tmp">>),    st |-> File(12)] >>

LeafIdx == 1..Len(FsLeaves)

Nodes == UNION { {SubSeq(FsLeaves[i].p, 1, k) : k \in 1..Len(FsLeaves[i].p)} : i \in LeafIdx }

Through(n) == {i \in LeafIdx : Len(FsLeaves[i].p) >= Len(n) /\ SubSeq(FsLeaves[i].p, 1, Len(n)) = n}

InitFs ==
    [n \in Nodes |->
        LET first == CHOOSE i \in Through(n) : \A j \in Through(n) : i <= j
            st == IF FsLeaves[first].p = n THEN FsLeaves[first].st
                  ELSE IF \E i \in Through(n) : FsLeaves[i].st.kind # "absent"
                       THEN Dir ELSE Absent
        IN  [st EXCEPT !.ord = first] ]

\* No node: the path names nothing the filesystem has a name for.
NoNode == <<>>

AnyOf(S) == IF S = {} THEN NoNode ELSE CHOOSE n \in S : TRUE

\* Two paths name the same file: Windows file names are case-insensitive.
SameFile(p, q) == Cardinality({Fold(x) : x \in {p, q}}) = 1

\* A relative path names what it names from the current directory.
Resolve(p) == IF IsAbs(p) THEN p ELSE cwd \o p

NodeAt(f, q) == IF q \in DOMAIN f THEN q ELSE AnyOf({n \in DOMAIN f : SameFile(n, q)})

\* The node a path names, NoNode when there is none.
NodeOf(f, p) == NodeAt(f, Resolve(p))

\* The entries found below node n, as the paths pathlib makes of them: the
\* path d that was listed, joined with the names below it.
Relative(d, n, walk) ==
    [walk EXCEPT !.seq = [i \in 1..Len(@) |-> d \o SubSeq(@[i], Len(n) + 1, Len(@[i]))]]

StateAt(f, n) == IF n = NoNode THEN Absent ELSE f[n]

StateOf(f, p) == StateAt(f, NodeOf(f, p))

\* os.stat(p) raises an error that pathlib does not take for "no such file":
\* Path.exists() and Path.is_file() raise it too.
StatFails(f, p) == StateOf(f, p).kind = "file" /\ StateOf(f, p).err # "none"

\* Path.exists(), Path.is_file(), Path.is_dir(), when os.stat answers
Exists(f, p) == StateOf(f, p).kind # "absent"
IsFile(f, p) == StateOf(f, p).kind = "file"
IsDir(f, p)  == StateOf(f, p).kind = "dir"

IsUnder(n, d) == Len(n) > Len(d) /\ SubSeq(n, 1, Len(d)) = d

\* The nodes below node d, files and directories.
Below(f, d) == {n \in DOMAIN f : IsUnder(n, d)}

RECURSIVE InOrder(_, _)
\* A set of nodes as a sequence, in listing order.
InOrder(f, S) ==
    IF S = {} THEN <<>>
    ELSE LET n == CHOOSE n \in S : \A m \in S : f[n].ord <= f[m].ord
         IN  <<n>> \o InOrder(f, S \ {n})

\* os.scandir(d): the existing entries of directory node d, in listing order.
Children(f, d) ==
    InOrder(f, {n \in DOMAIN f : /\ Len(n) = Len(d) + 1
                                 /\ SubSeq(n, 1, Len(d)) = d
                                 /\ f[n].kind # "absent"})

RECURSIVE SumOver(_, _)
SumOver(f, S) ==
    IF S = {} THEN 0
    ELSE LET n == CHOOSE n \in S : TRUE
         IN  (IF f[n].kind = "file" THEN f[n].size ELSE 0) + SumOver(f, S \ {n})

NoWalk == [seq |-> <<>>, raised |-> FALSE]

RECURSIVE WalkNode(_, _, _)
RECURSIVE WalkKids(_, _, _)
\* The walk of each of the directories dirs in turn, until one raises.
WalkKids(f, dirs, acc) ==
    IF dirs = <<>> \/ acc.raised THEN acc
    ELSE WalkKids(f, Tail(dirs), WalkNode(f, Head(dirs), acc))

\* The entries kids of one directory, then the walk of its subdirectories.
WalkInto(f, kids, acc) ==
    WalkKids(f, SelectSeq(kids, LAMBDA c : f[c].kind = "dir"),
             [acc EXCEPT !.seq = @ \o kids])

\* The walk of directory node d behind rglob.  pathlib lists the directory
\* with os.scandir: it swallows a PermissionError and goes on with the next
\* directory, and lets any other OSError reach the caller of rglob.
WalkNode(f, d, acc) ==
    IF f[d].err = "perm" THEN acc
    ELSE IF f[d].err = "io" THEN [acc EXCEPT !.raised = TRUE]
    ELSE WalkInto(f, Children(f, d), acc)

WalkAt(f, n) == IF StateAt(f, n).kind # "dir" THEN NoWalk ELSE WalkNode(f, n, NoWalk)

\* sum(f.stat().st_size for f in path.rglob('*') if f.is_file()); an OSError
\* raised on the way is caught and the size is 0.
DirSize(f, walk) ==
    IF walk.raised \/ \E i \in 1..Len(walk.seq) : StatFails(f, walk.seq[i]) THEN 0
    ELSE SumOver(f, {walk.seq[i] : i \in 1..Len(walk.seq)})

\* utils.get_file_size: st_size of a file, the sum over the regular files
\* below a directory, 0 otherwise and on OSError.
SizeAt(f, n) ==
    IF n = NoNode THEN 0
    ELSE IF f[n].kind = "file" THEN (IF f[n].err = "none" THEN f[n].size ELSE 0)
    ELSE IF f[n].kind = "dir" THEN DirSize(f, WalkNode(f, n, NoWalk))
    ELSE 0

get_file_size(f, path) == SizeAt(f, NodeOf(f, path))

----------------------------------------------------------------------------
(* Globbing                                                                *)

RECURSIVE Match(_, _)
\* fnmatch of one name against one pattern; "*" is the only wildcard used.
Match(pat, name) ==
    IF pat = <<>> THEN name = <<>>
    ELSE IF Head(pat) = "*"
         THEN Match(Tail(pat), name) \/ (name # <<>> /\ Match(pat, Tail(name)))
         ELSE name # <<>> /\ Head(name) = Head(pat) /\ Match(Tail(pat), Tail(name))

\* Windows globbing ignores case.
NameMatches(pat, node) == Match(Lower(pat), Lower(Name(node)))

\* directory.glob(pattern): the matching entries of the directory itself;
\* a PermissionError of os.scandir is swallowed, another OSError is raised.
GlobAt(f, n, pat) ==
    IF StateAt(f, n).kind # "dir" \/ StateAt(f, n).err = "perm" THEN NoWalk
    ELSE IF f[n].err = "io" THEN [NoWalk EXCEPT !.raised = TRUE]
    ELSE [NoWalk EXCEPT !.seq = SelectSeq(Children(f, n), LAMBDA c : NameMatches(pat, c))]

GlobFrom(f, d, n, pat) == Relative(d, n, GlobAt(f, n, pat))

Glob(f, d, pat) == GlobFrom(f, d, NodeOf(f, d), pat)

\* The recursive walk behind rglob: the entries of the directory, then those
\* of each subdirectory, recursively, and whether the walk raised after
\* them.  Nothing when d is not a directory.
WalkFrom(f, d, n) == Relative(d, n, WalkAt(f, n))

Walk(f, d) == WalkFrom(f, d, NodeOf(f, d))

\* directory.rglob(pattern), given the walk of the directory: the entries
\* whose name matches.
RGlobOf(walk, pat) == SelectSeq(walk, LAMBDA c : NameMatches(pat, c))

----------------------------------------------------------------------------
(* WindowsCleaner: the scan procedures                                     *)

EmptyScan == [files |-> <<>>, total_size |-> 0, raised |-> FALSE]

\* Mutant: the Safety Filter is not consulted.
ScanAccepts_NoFilter(f, file_path) == IsFile(f, file_path)

\* if file_path.is_file() and self._is_safe_to_delete(file_path):
ScanAccepts(f, file_path) == IsFile(f, file_path) /\ _is_safe_to_delete(file_path)

\* if self._is_safe_to_delete(file_path):          (thumbnail cache)
CacheAccepts(f, file_path) == _is_safe_to_delete(file_path)

\* Mutant: total_size = size instead of total_size += size.
AddFile_Assign(f, acc, file_path) ==
    [acc EXCEPT !.files = Append(@, StrOf(file_path)),
                !.total_size = get_file_size(f, file_path)]

\* size = get_file_size(file_path); files.append(str(file_path)); total_size += size
AddFile(f, acc, file_path) ==
    [acc EXCEPT !.files = Append(@, StrOf(file_path)),
                !.total_size = @ + get_file_size(f, file_path)]

\* files.extend(f); total_size += s
Extend(acc, r) ==
    [acc EXCEPT !.files = @ \o r.files, !.total_size = @ + r.total_size,
                !.raised = r.raised]

\* An exception leaves the loop it is raised in.
Raised(acc) == [acc EXCEPT !.raised = TRUE]

\* One turn of the for loops of _scan_directory; is_file() raises when
\* os.stat does.
Visit(f, acc, file_path) ==
    IF StatFails(f, file_path) THEN Raised(acc)
    ELSE IF ScanAccepts(f, file_path) THEN AddFile(f, acc, file_path)
    ELSE acc

RECURSIVE ScanCollect(_, _, _)
\* The inner for loop of _scan_directory over what rglob yields, up to the
\* first exception.
ScanCollect(f, found, acc) ==
    IF found = <<>> \/ acc.raised THEN acc
    ELSE ScanCollect(f, Tail(found), Visit(f, acc, Head(found)))

\* rglob raises after the entries it could list.
EndOfWalk(walk, acc) == IF walk.raised THEN Raised(acc) ELSE acc

RECURSIVE ScanPatterns(_, _, _, _)
\* for pattern in patterns: for file_path in directory.rglob(pattern): ...
\* Each pattern walks the directory again; the first exception ends both
\* loops.
ScanPatterns(f, walk, pats, acc) ==
    IF pats = <<>> \/ acc.raised THEN acc
    ELSE ScanPatterns(f, walk, Tail(pats),
                      EndOfWalk(walk, ScanCollect(f, RGlobOf(walk.seq, Head(pats)), acc)))

\* except PermissionError: ...  except Exception as e: ...
\* return files, total_size
Caught(acc) == [acc EXCEPT !.raised = FALSE]

\* _scan_directory(directory, patterns); patterns = <<>> stands for None.
\* directory.exists() is outside the try block.
_scan_directory(f, directory, patterns) ==
    IF StatFails(f, directory) THEN Raised(EmptyScan)
    ELSE IF ~Exists(f, directory) THEN EmptyScan
    ELSE Caught(ScanPatterns(f, Walk(f, directory),
                             IF patterns = <<>> THEN << <<"*">> >> ELSE patterns,
                             EmptyScan))

RECURSIVE ScanRoots(_, _, _, _)
\* for location in locations: f, s = self._scan_directory(location, patterns); ...
ScanRoots(f, roots, patterns, acc) ==
    IF roots = <<>> \/ acc.raised THEN acc
    ELSE ScanRoots(f, Tail(roots), patterns,
                   Extend(acc, _scan_directory(f, Head(roots), patterns)))

\* Mutant: the user temp scan keeps only '*.tmp'.
_scan_temp_user_TmpOnly(self, f) ==
    _scan_directory(f, self.temp_dir, << <<"*", ".", "tmp">> >>)

_scan_temp_user(self, f) == _scan_directory(f, self.temp_dir, <<>>)

_scan_temp_windows(self, f) == _scan_directory(f, windows_temp, <<>>)

_scan_prefetch(self, f) == _scan_directory(f, prefetch_dir, << <<"*", ".", "pf">> >>)

\* firefox_profiles.iterdir(): os.listdir raises when the directory cannot
\* be listed, or is not a directory.
IterAt(f, n) ==
    IF StateAt(f, n).kind # "dir" \/ StateAt(f, n).err # "none" THEN Raised(NoWalk)
    ELSE [NoWalk EXCEPT !.seq = Children(f, n)]

IterFrom(f, d, n) == Relative(d, n, IterAt(f, n))

IterDir(f, d) == IterFrom(f, d, NodeOf(f, d))

\* if profile.is_dir(): ff_cache = profile / "cache2"
ProfilesAt(f, listed) == SelectSeq(listed, LAMBDA profile : IsDir(f, profile))

CachesOf(profiles) == [i \in 1..Len(profiles) |-> Join(profiles[i], <<"cache2">>)]

\* for profile in firefox_profiles.iterdir(): if profile.is_dir(): ...
\* An exception of iterdir() or is_dir() is caught nowhere in the procedure.
Profiles(f, listing, acc) ==
    IF listing.raised \/ \E i \in 1..Len(listing.seq) : StatFails(f, listing.seq[i])
    THEN Raised(acc)
    ELSE ScanRoots(f, CachesOf(ProfilesAt(f, listing.seq)), <<>>, acc)

\* if firefox_profiles.exists(): ...
FirefoxCaches(f, profiles_dir, acc) ==
    IF acc.raised \/ ~Exists(f, profiles_dir) THEN acc
    ELSE Profiles(f, IterDir(f, profiles_dir), acc)

CacheDirs(local) ==
    <<chrome_cache(local), chrome_code_cache(local), edge_cache(local), edge_code_cache(local)>>

_scan_browser_cache(self, f) ==
    FirefoxCaches(f, firefox_profiles(self.local_app_data),
                  ScanRoots(f, CacheDirs(self.local_app_data), <<>>, EmptyScan))

RECURSIVE CacheCollect(_, _, _)
\* for file_path in thumbnail_cache.glob("thumbcache_*.db"): ...
CacheCollect(f, found, acc) ==
    IF found = <<>> THEN acc
    ELSE CacheCollect(f, Tail(found),
                      IF CacheAccepts(f, Head(found))
                      THEN AddFile(f, acc, Head(found)) ELSE acc)

Thumbnails(f, globbed) == EndOfWalk(globbed, CacheCollect(f, globbed.seq, EmptyScan))

\* if icon_cache.exists() and self._is_safe_to_delete(icon_cache): ...
AddIconCache(f, acc, icon) ==
    IF acc.raised THEN acc
    ELSE IF StatFails(f, icon) THEN Raised(acc)
    ELSE IF Exists(f, icon) /\ _is_safe_to_delete(icon) THEN AddFile(f, acc, icon)
    ELSE acc

_scan_windows_cache(self, f) ==
    AddIconCache(f, Thumbnails(f, Glob(f, thumbnail_cache(self.local_app_data),
                                        <<"thumbcache_", "*", ".", "db">>)),
                 icon_cache(self.local_app_data))

_scan_recent_files(self, f) ==
    _scan_directory(f, recent_dir(self.app_data), << <<"*", ".", "lnk">> >>)

_scan_log_files(self, f) ==
    ScanRoots(f, <<self.temp_dir, self.local_app_data, windows_logs>>,
              << <<"*", ".", "log">> >>, EmptyScan)

_scan_old_files(self, f) ==
    ScanRoots(f, <<self.temp_dir, user_home, self.local_app_data>>,
              << <<"*", ".", "old">>, <<"*", ".", "bak">>, <<"*", ".", "tmp">>,
                 <<"*", ".", "temp">>, <<"~", "*">> >>, EmptyScan)

\* Mutant: the last category is not listed.
Categories_NoOldFiles ==
    <<"temp_user", "temp_windows", "prefetch", "browser_cache",
      "windows_cache", "recent_files", "log_files">>

\* get_categories(): the ids, in order.
Categories ==
    <<"temp_user", "temp_windows", "prefetch", "browser_cache",
      "windows_cache", "recent_files", "log_files", "old_files">>

\* The keys of scan_methods.
ScanMethodIds ==
    {"temp_user", "temp_windows", "prefetch", "browser_cache",
     "windows_cache", "recent_files", "log_files", "old_files"}

\* scan_methods[category]()
RunMethod(self, f, category) ==
    CASE category = "temp_user"     -> _scan_temp_user(self, f)
      [] category = "temp_windows"  -> _scan_temp_windows(self, f)
      [] category = "prefetch"      -> _scan_prefetch(self, f)
      [] category = "browser_cache" -> _scan_browser_cache(self, f)
      [] category = "windows_cache" -> _scan_windows_cache(self, f)
      [] category = "recent_files"  -> _scan_recent_files(self, f)
      [] category = "log_files"     -> _scan_log_files(self, f)
      [] category = "old_files"     -> _scan_old_files(self, f)

\* What the caller of scan_category observes: the pair returned, or the
\* exception that no scan procedure caught.
ScanOutcome(proc, r) ==
    IF r.raised THEN [proc |-> proc, files |-> <<>>, total_size |-> 0, raised |-> TRUE]
    ELSE [proc |-> proc, files |-> r.files, total_size |-> r.total_size, raised |-> FALSE]

\* Mutant: an unknown id falls back to the user temp scan.
scan_category_Fallback(self, f, category) ==
    IF category \in ScanMethodIds
    THEN ScanOutcome(category, RunMethod(self, f, category))
    ELSE ScanOutcome("temp_user", RunMethod(self, f, "temp_user"))

\* method = scan_methods.get(category); if method: return method(); return [], 0
\* proc names the procedure that ran, "none" when none did.
scan_category(self, f, category) ==
    IF category \in ScanMethodIds
    THEN ScanOutcome(category, RunMethod(self, f, category))
    ELSE ScanOutcome("none", EmptyScan)

----------------------------------------------------------------------------
(* utils.safe_remove_file, utils.safe_remove_dir                           *)

Unlocked(f, n) == f[n].kind = "file" /\ ~f[n].locked

\* A name after its removal; its place in the listing order is kept.
Gone(st) == [st EXCEPT !.kind = "absent", !.size = 0, !.locked = FALSE, !.err = "none"]

\* A name the operating system refuses to remove or to list: a file in
\* use, a file or directory whose reading fails.
Blocked(f, n) == f[n].kind # "absent" /\ (f[n].locked \/ f[n].err # "none")

\* What shutil.rmtree(ignore_errors=True) cannot remove: a blocked name,
\* every directory that still holds one, and what lies below a directory
\* that cannot be listed.
Stays(f, d, n) ==
    \/ Blocked(f, n)
    \/ \E m \in DOMAIN f :
           /\ Blocked(f, m)
           /\ \/ IsUnder(m, n)
              \/ IsUnder(n, m) /\ (m = d \/ IsUnder(m, d))

RmTree(f, d) ==
    [n \in DOMAIN f |->
        IF (n = d \/ IsUnder(n, d)) /\ ~Stays(f, d, n) THEN Gone(f[n]) ELSE f[n]]

\* Mutant: True is returned for a file that is left in place.
UnlinkAt_Pretend(f, n) == [fs |-> f, ok |-> StateAt(f, n).kind # "absent"]

\* if path.exists(): path.unlink(); return True
\* except (OSError, PermissionError): ...; return False
UnlinkAt(f, n) ==
    IF StateAt(f, n).kind # "absent" /\ Unlocked(f, n) /\ f[n].err = "none"
    THEN [fs |-> [f EXCEPT ![n] = Gone(@)], ok |-> TRUE]
    ELSE [fs |-> f, ok |-> FALSE]

safe_remove_file(f, path) == UnlinkAt(f, NodeOf(f, path))

\* if path.exists(): shutil.rmtree(path, ignore_errors=True); return not path.exists()
Removed(g, n) == [fs |-> g, ok |-> g[n].kind = "absent"]

RmTreeAt(f, n) ==
    IF StateAt(f, n).kind # "absent" THEN Removed(RmTree(f, n), n)
    ELSE [fs |-> f, ok |-> FALSE]

safe_remove_dir(f, path) == RmTreeAt(f, NodeOf(f, path))

----------------------------------------------------------------------------
(* WindowsCleaner.clean_files                                              *)

\* One log line per list entry, for the properties: whether the entry
\* existed and what the Safety Filter said when its turn came, the removal
\* function it was passed to ("none" when it was not), the size captured,
\* and the three counters after the entry.
LogLine(st, file_path, existed, safe, call, size, ok) ==
    [entry |-> file_path, existed |-> existed, safe |-> safe, call |-> call,
     size |-> size, ok |-> ok,
     removed |-> st.removed, size_freed |-> st.size_freed, errors |-> st.errors]

Logged(st, file_path, existed, safe, call, size, ok) ==
    [st EXCEPT !.log = Append(@, LogLine(st, file_path, existed, safe, call, size, ok))]

\* Mutant: a vanished path is counted as an error.
OnMissing_CountsError(st, file_path) ==
    Logged([st EXCEPT !.errors = @ + 1], file_path, FALSE, FALSE, "none", 0, FALSE)

\* path.exists() raises: except Exception as e: ...; errors += 1
OnException(st, file_path) ==
    Logged([st EXCEPT !.errors = @ + 1], file_path, TRUE, FALSE, "raise", 0, FALSE)

\* if not path.exists(): continue
OnMissing(st, file_path) ==
    Logged(st, file_path, FALSE, FALSE, "none", 0, FALSE)

\* Mutant: the size of a rejected entry is added to the space freed.
OnProtected_Attributes(st, file_path) ==
    Logged([st EXCEPT !.errors = @ + 1,
                      !.size_freed = @ + get_file_size(st.fs, Path(file_path))],
           file_path, TRUE, FALSE, "none", 0, FALSE)

\* if not self._is_safe_to_delete(path): ...; errors += 1; continue
OnProtected(st, file_path) ==
    Logged([st EXCEPT !.errors = @ + 1], file_path, TRUE, FALSE, "none", 0, FALSE)

\* self._is_safe_to_delete(path), at clean time
Revalidate(path) == _is_safe_to_delete(path)

\* Mutant: the size is measured after the removal.
Count_SizeAfter(st, file_path, call, size, r) ==
    Logged(IF r.ok
           THEN [st EXCEPT !.fs = r.fs, !.removed = @ + 1,
                           !.size_freed = @ + get_file_size(r.fs, Path(file_path))]
           ELSE [st EXCEPT !.fs = r.fs, !.errors = @ + 1],
           file_path, TRUE, _is_safe_to_delete(Path(file_path)), call, size, r.ok)

\* if success: removed += 1; size_freed += size  else: errors += 1
Count(st, file_path, call, size, r) ==
    Logged(IF r.ok
           THEN [st EXCEPT !.fs = r.fs, !.removed = @ + 1, !.size_freed = @ + size]
           ELSE [st EXCEPT !.fs = r.fs, !.errors = @ + 1],
           file_path, TRUE, _is_safe_to_delete(Path(file_path)), call, size, r.ok)

\* if path.is_file(): success = safe_remove_file(path)
\* else: success = safe_remove_dir(path)
Remove(st, file_path, path, file, size) ==
    IF file THEN Count(st, file_path, "safe_remove_file", size, safe_remove_file(st.fs, path))
    ELSE Count(st, file_path, "safe_remove_dir", size, safe_remove_dir(st.fs, path))

\* size = get_file_size(path); then the removal
OnRemove(st, file_path, path) ==
    Remove(st, file_path, path, IsFile(st.fs, path), get_file_size(st.fs, path))

\* The body of the for loop of clean_files.
CleanOne(st, file_path) ==
    LET path == Path(file_path)
    IN  IF StatFails(st.fs, path) THEN OnException(st, file_path)
        ELSE IF ~Exists(st.fs, path) THEN OnMissing(st, file_path)
        ELSE IF ~Revalidate(path) THEN OnProtected(st, file_path)
        ELSE OnRemove(st, file_path, path)

RECURSIVE CleanLoop_AbortOnError(_, _)
\* Mutant: the first error ends the loop.
CleanLoop_AbortOnError(st, files) ==
    IF files = <<>> \/ st.errors > 0 THEN st
    ELSE CleanLoop_AbortOnError(CleanOne(st, Head(files)), Tail(files))

RECURSIVE CleanLoop(_, _)
\* for file_path in files: try: ... except Exception: ...
CleanLoop(st, files) ==
    IF files = <<>> THEN st ELSE CleanLoop(CleanOne(st, Head(files)), Tail(files))

\* clean_files(files): (removed, size_freed, errors), the filesystem it
\* leaves, and the log.
clean_files(f, files) ==
    CleanLoop([fs |-> f, removed |-> 0, size_freed |-> 0, errors |-> 0, log |-> <<>>],
              files)

----------------------------------------------------------------------------
(* The engine on a filesystem that other processes change                  *)

MaxListLen == 3     \* longest list handed to clean_files
MaxExt     == 2     \* external filesystem changes per run

\* The record of an engine call: its argument, what it returned, the log of
\* clean_files, the filesystem it found (the filesystem it left is fs), and
\* for a repeated clean_files call the log of the call before.
NoOp ==
    [name |-> "none", arg |-> "", proc |-> "none", files |-> <<>>,
     total_size |-> 0, removed |-> 0, size_freed |-> 0, errors |-> 0,
     log |-> <<>>, prev |-> <<>>, round |-> 0, before |-> <<>>,
     raised |-> FALSE, result |-> NoCall, size_str |-> <<>>]

\* Category ids a caller may pass.
CategoryInputs == ScanMethodIds \cup {"trash", "", "TEMP_USER"}

\* Paths a caller may put in a list.
CleanCandidates ==
    { StrOf(Join(temp_dir, <<"a", ".", "dat">>)),
      StrOf(Join(temp_dir, <<"~", "x", ".", "tmp">>)),
      StrOf(Join(temp_dir, <<"c", ".", "tmp">>)),
      StrOf(Join(temp_dir, <<"sub">>)),
      StrOf(Join(temp_dir, <<"sub", "/", "k", ".", "EXE">>)) }

RECURSIVE SeqsUpTo(_, _)
SeqsUpTo(S, n) ==
    IF n = 0 THEN {<<>>}
    ELSE LET shorter == SeqsUpTo(S, n - 1)
         IN  shorter \cup {Append(q, x) : q \in shorter, x \in S}

CleanLists == SeqsUpTo(CleanCandidates, MaxListLen)

\* Files another process may delete, or hold open, between two calls.
ExtDeletable == { Join(temp_dir, <<"a", ".", "dat">>),
                  Join(temp_dir, <<"~", "x", ".", "tmp">>),
                  Join(temp_dir, <<"c", ".", "tmp">>),
                  Join(temp_dir, <<"setup", ".", "exe">>) }
ExtLockable  == { Join(temp_dir, <<"a", ".", "dat">>),
                  Join(temp_dir, <<"sub", "/", "d", ".", "log">>) }

CleanerInit ==
    /\ fs = InitFs
    /\ op = NoOp
    /\ nExt = 0
    /\ cleaner = WindowsCleaner(HostEnviron)
    /\ system = "Windows"

CleanerIdle == CleanerInit

ScanRecord(category, r, before) ==
    [NoOp EXCEPT !.name = "scan", !.arg = category, !.proc = r.proc,
                 !.files = r.files, !.total_size = r.total_size, !.before = before,
                 !.raised = r.raised]

\* cleaner.scan_category(category), on a Windows host: the paths are
\* Windows paths.
ScanCategoryCall ==
    \E category \in CategoryInputs :
        /\ system = "Windows"
        /\ op' = ScanRecord(category, scan_category(cleaner, fs, category), fs)
        /\ UNCHANGED <<fs, nExt, hostVars, filterVars, appVars>>

CleanRecord(files, r, prev, round, before) ==
    [NoOp EXCEPT !.name = "clean", !.files = files, !.removed = r.removed,
                 !.size_freed = r.size_freed, !.errors = r.errors, !.log = r.log,
                 !.prev = prev, !.round = round, !.before = before]

\* cleaner.clean_files(files), with any list.  clean_files keeps nothing
\* between calls, so a later call with another list does what the end of a
\* longer list does in one call: only the first call chooses its list.
CleanFilesCall ==
    \E files \in CleanLists :
        /\ op.name # "clean"
        /\ \E r \in {clean_files(fs, files)} :
               /\ fs' = r.fs
               /\ op' = CleanRecord(files, r, <<>>, 1, fs)
        /\ UNCHANGED <<nExt, hostVars, filterVars, appVars>>

\* cleaner.clean_files(files) again, with the list of the call before.
CleanFilesAgain ==
    /\ op.name = "clean"
    /\ op.round = 1
    /\ \E r \in {clean_files(fs, op.files)} :
           /\ fs' = r.fs
           /\ op' = CleanRecord(op.files, r, op.log, 2, fs)
    /\ UNCHANGED <<nExt, hostVars, filterVars, appVars>>

\* cleaner.clean_files(files) with the list the scan_category call before
\* returned, as _clean_thread calls it.
CleanScannedCall ==
    /\ op.name = "scan"
    /\ ~op.raised
    /\ \E r \in {clean_files(fs, op.files)} :
           /\ fs' = r.fs
           /\ op' = [CleanRecord(op.files, r, <<>>, 1, fs) EXCEPT !.arg = op.arg]
    /\ UNCHANGED <<nExt, hostVars, filterVars, appVars>>

ExtEnabled == nExt < MaxExt /\ op.name # "clean"

\* Another process deletes a file.
ExtDelete ==
    \E n \in ExtDeletable :
        /\ ExtEnabled
        /\ fs[n].kind = "file"
        /\ fs' = [fs EXCEPT ![n] = Gone(@)]
        /\ op' = NoOp
        /\ nExt' = nExt + 1
        /\ UNCHANGED <<hostVars, filterVars, appVars>>

\* Another process opens a file, so that it cannot be unlinked.
ExtLock ==
    \E n \in ExtLockable :
        /\ ExtEnabled
        /\ Unlocked(fs, n)
        /\ fs' = [fs EXCEPT ![n].locked = TRUE]
        /\ op' = NoOp
        /\ nExt' = nExt + 1
        /\ UNCHANGED <<hostVars, filterVars, appVars>>

\* Another process replaces the file c.tmp by a directory holding a document.
ExtReplace ==
    LET c == Join(temp_dir, <<"c", ".", "tmp">>)
        k == Join(temp_dir, <<"c", ".", "tmp", "/", "keep", ".", "pdf">>)
    IN  /\ ExtEnabled
        /\ fs[c].kind = "file"
        /\ fs' = [fs EXCEPT ![c].kind = "dir", ![c].size = 0,
                             ![k].kind = "file", ![k].size = 33]
        /\ op' = NoOp
        /\ nExt' = nExt + 1
        /\ UNCHANGED <<hostVars, filterVars, appVars>>

\* Names whose reading starts to fail: a subdirectory of the user temp
\* directory that can no longer be listed, a temporary file whose os.stat
\* is refused.
ExtFaults ==
    { <<Join(temp_dir, <<"sub">>), "perm">>,
      <<Join(temp_dir, <<"sub">>), "io">>,
      <<Join(temp_dir, <<"a", ".", "dat">>), "perm">> }

ExtFault ==
    \E x \in ExtFaults :
        /\ ExtEnabled
        /\ fs[x[1]].kind # "absent"
        /\ fs[x[1]].err = "none"
        /\ fs' = [fs EXCEPT ![x[1]].err = x[2]]
        /\ op' = NoOp
        /\ nExt' = nExt + 1
        /\ UNCHANGED <<hostVars, filterVars, appVars>>

\* cleaner.get_categories()
GetCategoriesCall ==
    /\ op' = [NoOp EXCEPT !.name = "categories", !.files = Categories]
    /\ UNCHANGED <<fs, nExt, hostVars, filterVars, appVars>>

----------------------------------------------------------------------------
(* WindowsCleaner.empty_recycle_bin                                        *)

Systems == {"Windows", "Linux", "Darwin"}

\* What the shell call does: it returns S_OK, it returns a failure code,
\* or ctypes raises OSError.
ShellOutcomes == {"S_OK", "E_FAIL", "raise"}

\* The try block.  ctypes is imported only when platform.system() is
\* 'Windows' (lines 18-20): elsewhere the name is unbound and the call
\* raises NameError.  The code returned by the shell is not looked at.
RecycleBody(sys, shell) ==
    IF sys # "Windows" THEN Raise
    ELSE IF shell = "raise" THEN Raise
    ELSE Return(TRUE)

\* Mutant: the exception is not caught.
RecycleHandler_Reraise(outcome) == outcome

\* except Exception as e: ...; return False
RecycleHandler(outcome) ==
    IF outcome.kind = "raise" THEN Return(FALSE) ELSE outcome

empty_recycle_bin(sys, shell) == RecycleHandler(RecycleBody(sys, shell))

\* cleaner.empty_recycle_bin()
EmptyRecycleBinCall ==
    \E shell \in ShellOutcomes :
        /\ op' = [NoOp EXCEPT !.name = "trash", !.arg = shell,
                              !.result = empty_recycle_bin(system, shell)]
        /\ UNCHANGED <<fs, nExt, hostVars, filterVars, appVars>>

----------------------------------------------------------------------------
(* utils.parse_size                                                        *)

\* A size string is the sequence of its characters.  A Python int has no
\* upper limit: a number of bytes is the sequence of its digits in base
\* 1024, the lowest first and the highest not 0; zero has no digit.
Zero == <<>>

RECURSIVE FromInt(_)
FromInt(n) == IF n = 0 THEN Zero ELSE <<n % 1024>> \o FromInt(n \div 1024)

\* value * 1024 ** exp
Shift(v, exp) == IF v = Zero THEN Zero ELSE [i \in 1..exp |-> 0] \o v

\* The dict units, in the order of its keys: 'B': 1, 'KB': 1024,
\* 'MB': 1024 ** 2, 'GB': 1024 ** 3, 'TB': 1024 ** 4.
units ==
    << [unit |-> <<"B">>, exp |-> 0],
       [unit |-> <<"K", "B">>, exp |-> 1],
       [unit |-> <<"M", "B">>, exp |-> 2],
       [unit |-> <<"G", "B">>, exp |-> 3],
       [unit |-> <<"T", "B">>, exp |-> 4] >>

RECURSIVE Strip(_)
\* str.strip()
Strip(s) ==
    IF s = <<>> THEN s
    ELSE IF Head(s) = " " THEN Strip(Tail(s))
    ELSE IF s[Len(s)] = " " THEN Strip(SubSeq(s, 1, Len(s) - 1))
    ELSE s

UpperTable == [c \in {"b", "k", "m", "g", "t", "x"} |->
                 CASE c = "b" -> "B" [] c = "k" -> "K" [] c = "m" -> "M"
                   [] c = "g" -> "G" [] c = "t" -> "T" [] c = "x" -> "X"]

\* str.upper()
Upper(s) == [i \in 1..Len(s) |-> Translate(UpperTable, s[i])]

\* str.endswith(suffix)
EndsWith(s, suffix) ==
    Len(s) >= Len(suffix) /\ SubSeq(s, Len(s) - Len(suffix) + 1, Len(s)) = suffix

DigitTable == [c \in {"0", "1", "2", "3", "4", "5", "6", "7", "8", "9"} |->
                 CASE c = "0" -> 0 [] c = "1" -> 1 [] c = "2" -> 2 [] c = "3" -> 3
                   [] c = "4" -> 4 [] c = "5" -> 5 [] c = "6" -> 6 [] c = "7" -> 7
                   [] c = "8" -> 8 [] c = "9" -> 9]

RECURSIVE DigitsValue(_, _)
DigitsValue(s, acc) ==
    IF s = <<>> THEN acc ELSE DigitsValue(Tail(s), 10 * acc + DigitTable[Head(s)])

\* float(text) of a text made of digits, letters and spaces: the value of
\* a run of digits, ValueError for anything else.
Float(text) ==
    IF text # <<>> /\ \A i \in 1..Len(text) : text[i] \in DOMAIN DigitTable
    THEN Return(DigitsValue(text, 0))
    ELSE Raise

\* try: value = float(size_str[:-len(unit)].strip())
\*      return int(value * multiplier)
\* except ValueError: return 0
Convert(s, unit, exp) ==
    LET value == Float(Strip(SubSeq(s, 1, Len(s) - Len(unit))))
    IN  IF value.kind = "raise" THEN Zero ELSE Shift(FromInt(value.val), exp)

RECURSIVE ParseLoop(_, _)
\* for unit, multiplier in units.items(): the first unit the string ends
\* with decides; return 0 after the loop.
ParseLoop(s, tried) ==
    IF tried = <<>> THEN Zero
    ELSE IF EndsWith(s, Head(tried).unit) THEN Convert(s, Head(tried).unit, Head(tried).exp)
    ELSE ParseLoop(s, Tail(tried))

parse_size(size_str) == ParseLoop(Upper(Strip(size_str)), units)

\* The numbers and the texts str() makes of them.
SizeNumbers ==
    { [n |-> 0, text |-> <<"0">>],
      [n |-> 1, text |-> <<"1">>],
      [n |-> 7, text |-> <<"7">>],
      [n |-> 12, text |-> <<"1", "2">>],
      [n |-> 500, text |-> <<"5", "0", "0">>],
      [n |-> 1023, text |-> <<"1", "0", "2", "3">>],
      [n |-> 1024, text |-> <<"1", "0", "2", "4">>],
      [n |-> 4096, text |-> <<"4", "0", "9", "6">>] }

UnitTexts == {units[i].unit : i \in 1..Len(units)} \cup
             {<<"b">>, <<"k", "b">>, <<"M", "b">>, <<"g", "B">>, <<"t", "b">>, <<"X", "B">>, <<>>}

\* The strings a caller may pass: a number, no or one or two spaces, a
\* unit or something that is none, with or without spaces around.
SizeInputs ==
    { pre \o num.text \o sep \o unit \o post :
          pre \in {<<>>, <<" ">>}, num \in SizeNumbers,
          sep \in {<<>>, <<" ">>, <<" ", " ">>}, unit \in UnitTexts,
          post \in {<<>>, <<" ">>} }
    \cup {<<>>, <<"M", "B">>, <<"5", " ", "5", " ", "B">>, <<"x", "x">>}

\* parse_size(size_str); the function keeps nothing between calls, one
\* call per run shows them all.
ParseSizeCall ==
    \E size_str \in SizeInputs :
        /\ op.name = "none"
        /\ op' = [NoOp EXCEPT !.name = "parse", !.size_str = size_str,
                              !.result = Return(parse_size(size_str))]
        /\ UNCHANGED <<fs, nExt, hostVars, filterVars, appVars>>

----------------------------------------------------------------------------
(* LimpezaDavidApp: the window, its timers and its two worker threads      *)

MaxToggle == 1      \* check box clicks per run
MaxTimers == 2      \* pending timer callbacks

\* A worker thread that is not running.  The locals kept are those that
\* decide what the thread does next; the totals it only displays are not.
\* For the properties the clean thread also keeps what scan_results held
\* when it was started and the lists it passed to clean_files.
Idle == [pc |-> "idle", categories |-> <<>>, total_files |-> 0, left |-> <<>>,
         confirmed |-> <<>>, cleaned |-> <<>>]

\* Operations on scan_results, a dict that keeps the order of insertion.
DictHas(d, k) == \E i \in 1..Len(d) : d[i].id = k
DictGet(d, k) == d[CHOOSE i \in 1..Len(d) : d[i].id = k]
DictKeys(d)   == [i \in 1..Len(d) |-> d[i].id]
DictSet(d, k, files, size) ==
    LET item == [id |-> k, files |-> files, size |-> size]
    IN  IF DictHas(d, k)
        THEN [i \in 1..Len(d) |-> IF d[i].id = k THEN item ELSE d[i]]
        ELSE Append(d, item)

\* The files of the host on which the application is run: one temporary
\* file, one installer beside it, one prefetch file, one shortcut.
AppFiles ==
    { Join(temp_dir, <<"a", ".", "dat">>),
      Join(temp_dir, <<"setup", ".", "exe">>),
      Join(prefetch_dir, <<"APP", ".", "PF">>),
      Join(recent_dir(app_data), <<"doc", ".", "lnk">>) }

\* The host filesystem with the files kept and nothing else.
HostWith(kept) ==
    [n \in Nodes |->
        IF \E file \in kept : n = file \/ IsUnder(file, n)
        THEN InitFs[n] ELSE Gone(InitFs[n])]

AppFs == HostWith(AppFiles)

\* The same host with a Firefox profile directory that the user may not
\* list.
AppFsUnreadable ==
    [HostWith(AppFiles \cup {Join(firefox_profiles(local_app_data), <<"profiles", ".", "ini">>)})
        EXCEPT ![firefox_profiles(local_app_data)].err = "perm"]

AppHosts == {AppFs, AppFsUnreadable}

\* The state __init__ leaves: every check box set, no results, both flags
\* down, the clean button disabled, the 500 ms timer pending.
AppInit ==
    /\ category_vars = [c \in ScanMethodIds |-> TRUE]
    /\ scan_results = <<>>
    /\ is_scanning = FALSE
    /\ is_cleaning = FALSE
    /\ scan_complete = FALSE
    /\ clean_btn = "disabled"
    /\ rescan_btn = "normal"
    /\ timers = 1
    /\ dialog = "none"
    /\ scanT = Idle
    /\ cleanT = Idle
    /\ nToggle = 0

\* The application is not running.
AppIdle ==
    /\ category_vars = [c \in ScanMethodIds |-> TRUE]
    /\ scan_results = <<>>
    /\ is_scanning = FALSE
    /\ is_cleaning = FALSE
    /\ scan_complete = FALSE
    /\ clean_btn = "disabled"
    /\ rescan_btn = "disabled"
    /\ timers = 0
    /\ dialog = "none"
    /\ scanT = Idle
    /\ cleanT = Idle
    /\ nToggle = 0

\* A modal dialog holds the window: askyesno of the main thread, showinfo
\* or showerror of the clean thread.  Timers still fire.
ModalOpen == dialog = "confirm" \/ cleanT.pc \in {"info", "error"}

_get_selected_categories == SelectSeq(Categories, LAMBDA cat_id : category_vars[cat_id])

\* _start_scan(), on the main thread.
_start_scan ==
    IF is_scanning \/ _get_selected_categories = <<>>
    THEN UNCHANGED <<is_scanning, clean_btn, rescan_btn, scanT>>
    ELSE /\ is_scanning' = TRUE
         /\ clean_btn' = "disabled"
         /\ rescan_btn' = "disabled"
         /\ scanT' = [Idle EXCEPT !.pc = "begin", !.categories = _get_selected_categories]

\* A callback registered by root.after(500 | 1000, self._start_scan) runs.
TimerFires ==
    /\ timers > 0
    /\ timers' = timers - 1
    /\ _start_scan
    /\ UNCHANGED <<category_vars, scan_results, is_cleaning, scan_complete, dialog,
                   cleanT, nToggle, filterVars, cleanerVars>>

\* The user presses "Analisar novamente".
ClickRescan ==
    /\ rescan_btn = "normal"
    /\ ~ModalOpen
    /\ _start_scan
    /\ UNCHANGED <<category_vars, scan_results, is_cleaning, scan_complete, timers,
                   dialog, cleanT, nToggle, filterVars, cleanerVars>>

\* The user clicks a check box.
ToggleCategory ==
    \E cat_id \in ScanMethodIds :
        /\ ~ModalOpen
        /\ nToggle < MaxToggle
        /\ nToggle' = nToggle + 1
        /\ category_vars' = [category_vars EXCEPT ![cat_id] = ~@]
        /\ UNCHANGED <<scan_results, is_scanning, is_cleaning, scan_complete, clean_btn,
                       rescan_btn, timers, dialog, scanT, cleanT, filterVars, cleanerVars>>

\* _scan_thread: self.scan_results = {}
ScanBegin ==
    /\ scanT.pc = "begin"
    /\ scan_results' = <<>>
    /\ scanT' = [scanT EXCEPT !.pc = "scan"]
    /\ UNCHANGED <<category_vars, is_scanning, is_cleaning, scan_complete, clean_btn,
                   rescan_btn, timers, dialog, cleanT, nToggle, filterVars, cleanerVars>>

RECURSIVE ScanLoop(_, _, _, _, _)
\* _scan_thread: the loop over the categories, from the dict d and the count
\* total_files it starts with.  An exception of scan_category leaves the
\* loop; left is what the loop had still to scan.
ScanLoop(self, f, categories, d, total_files) ==
    IF categories = <<>>
    THEN [scan_results |-> d, total_files |-> total_files, left |-> <<>>]
    ELSE \* files, size = self.cleaner.scan_category(cat_id)
         LET Turn(cat_id, r) ==
                 IF r.raised
                 THEN [scan_results |-> d, total_files |-> total_files, left |-> categories]
                 ELSE ScanLoop(self, f, Tail(categories),
                               DictSet(d, cat_id, r.files, r.total_size),
                               total_files + Len(r.files))
         IN  Turn(Head(categories), scan_category(self, f, Head(categories)))

\* _scan_thread: the loop; an exception goes to the handler of line 745
\* and from there to the finally block.
ScanStep ==
    /\ scanT.pc = "scan"
    /\ \E r \in {ScanLoop(cleaner, fs, scanT.categories, scan_results, 0)} :
           /\ scan_results' = r.scan_results
           /\ scanT' = [scanT EXCEPT !.total_files = r.total_files, !.left = r.left,
                                     !.pc = IF r.left = <<>> THEN "finish" ELSE "finally"]
    /\ UNCHANGED <<category_vars, is_scanning, is_cleaning, scan_complete, clean_btn,
                   rescan_btn, timers, dialog, cleanT, nToggle, filterVars, cleanerVars>>

\* _scan_thread: scan_complete = True; the clean button is enabled when
\* something was found.
ScanFinish ==
    /\ scanT.pc = "finish"
    /\ scan_complete' = TRUE
    /\ clean_btn' = IF scanT.total_files > 0 THEN "normal" ELSE clean_btn
    /\ scanT' = [scanT EXCEPT !.pc = "finally"]
    /\ UNCHANGED <<category_vars, scan_results, is_scanning, is_cleaning, rescan_btn,
                   timers, dialog, cleanT, nToggle, filterVars, cleanerVars>>

\* _scan_thread: finally
ScanFinally ==
    /\ scanT.pc = "finally"
    /\ is_scanning' = FALSE
    /\ rescan_btn' = "normal"
    /\ scanT' = Idle
    /\ UNCHANGED <<category_vars, scan_results, is_cleaning, scan_complete, clean_btn,
                   timers, dialog, cleanT, nToggle, filterVars, cleanerVars>>

\* The user presses "Limpar": _start_clean() up to the confirmation dialog.
ClickClean ==
    /\ clean_btn = "normal"
    /\ ~ModalOpen
    /\ dialog' = IF is_cleaning \/ scan_results = <<>> THEN dialog ELSE "confirm"
    /\ UNCHANGED <<category_vars, scan_results, is_scanning, is_cleaning, scan_complete,
                   clean_btn, rescan_btn, timers, scanT, cleanT, nToggle,
                   filterVars, cleanerVars>>

\* Mutant: the worker is started whatever the answer.
AnswerNo_StartsWorker ==
    /\ dialog = "confirm"
    /\ dialog' = "no"
    /\ is_cleaning' = TRUE
    /\ clean_btn' = "disabled"
    /\ rescan_btn' = "disabled"
    /\ cleanT' = [Idle EXCEPT !.pc = "begin", !.confirmed = scan_results]
    /\ UNCHANGED <<category_vars, scan_results, is_scanning, scan_complete, timers,
                   scanT, nToggle, filterVars, cleanerVars>>

\* askyesno returns False: _start_clean() returns.
AnswerNo ==
    /\ dialog = "confirm"
    /\ dialog' = "no"
    /\ UNCHANGED <<category_vars, scan_results, is_scanning, is_cleaning, scan_complete,
                   clean_btn, rescan_btn, timers, scanT, cleanT, nToggle,
                   filterVars, cleanerVars>>

\* askyesno returns True: the rest of _start_clean().
AnswerYes ==
    /\ dialog = "confirm"
    /\ dialog' = "yes"
    /\ is_cleaning' = TRUE
    /\ clean_btn' = "disabled"
    /\ rescan_btn' = "disabled"
    /\ cleanT' = [Idle EXCEPT !.pc = "begin", !.confirmed = scan_results]
    /\ UNCHANGED <<category_vars, scan_results, is_scanning, scan_complete, timers,
                   scanT, nToggle, filterVars, cleanerVars>>

\* _clean_thread: categories = list(self.scan_results.keys())
CleanBegin ==
    /\ cleanT.pc = "begin"
    /\ cleanT' = [cleanT EXCEPT !.categories = DictKeys(scan_results), !.pc = "clean"]
    /\ UNCHANGED <<category_vars, scan_results, is_scanning, is_cleaning, scan_complete,
                   clean_btn, rescan_btn, timers, dialog, scanT, nToggle,
                   filterVars, cleanerVars>>

RECURSIVE CleanThreadLoop(_, _, _, _)
\* _clean_thread: the loop over the categories.  A key the scan thread has
\* dropped meanwhile raises KeyError, which ends the loop.  cleaned is the
\* lists passed to clean_files so far.
CleanThreadLoop(f, categories, d, cleaned) ==
    IF categories = <<>> THEN [fs |-> f, raised |-> FALSE, cleaned |-> cleaned]
    ELSE IF ~DictHas(d, Head(categories)) THEN [fs |-> f, raised |-> TRUE, cleaned |-> cleaned]
    ELSE LET files == DictGet(d, Head(categories)).files
         IN  IF files = <<>> THEN CleanThreadLoop(f, Tail(categories), d, cleaned)
             ELSE CleanThreadLoop(clean_files(f, files).fs, Tail(categories), d,
                                  Append(cleaned, files))

\* _clean_thread: the loop; the handler of the exception shows showerror.
CleanStep ==
    /\ cleanT.pc = "clean"
    /\ \E r \in {CleanThreadLoop(fs, cleanT.categories, scan_results, <<>>)} :
           /\ fs' = r.fs
           /\ cleanT' = [cleanT EXCEPT !.pc = IF r.raised THEN "error" ELSE "done",
                                       !.cleaned = r.cleaned]
    /\ UNCHANGED <<category_vars, scan_results, is_scanning, is_cleaning, scan_complete,
                   clean_btn, rescan_btn, timers, dialog, scanT, nToggle,
                   filterVars, op, nExt, hostVars>>

\* _clean_thread: self.scan_results = {}; self.scan_complete = False; showinfo
CleanDone ==
    /\ cleanT.pc = "done"
    /\ scan_results' = <<>>
    /\ scan_complete' = FALSE
    /\ cleanT' = [cleanT EXCEPT !.pc = "info"]
    /\ UNCHANGED <<category_vars, is_scanning, is_cleaning, clean_btn, rescan_btn,
                   timers, dialog, scanT, nToggle, filterVars, cleanerVars>>

\* showinfo returns: self.root.after(1000, self._start_scan)
DismissInfo ==
    /\ cleanT.pc = "info"
    /\ timers < MaxTimers
    /\ timers' = timers + 1
    /\ cleanT' = [cleanT EXCEPT !.pc = "finally"]
    /\ UNCHANGED <<category_vars, scan_results, is_scanning, is_cleaning, scan_complete,
                   clean_btn, rescan_btn, dialog, scanT, nToggle, filterVars, cleanerVars>>

\* showerror returns.
DismissError ==
    /\ cleanT.pc = "error"
    /\ cleanT' = [cleanT EXCEPT !.pc = "finally"]
    /\ UNCHANGED <<category_vars, scan_results, is_scanning, is_cleaning, scan_complete,
                   clean_btn, rescan_btn, timers, dialog, scanT, nToggle,
                   filterVars, cleanerVars>>

\* _clean_thread: finally
CleanFinally ==
    /\ cleanT.pc = "finally"
    /\ is_cleaning' = FALSE
    /\ rescan_btn' = "normal"
    /\ cleanT' = Idle
    /\ UNCHANGED <<category_vars, scan_results, is_scanning, scan_complete, clean_btn,
                   timers, dialog, scanT, nToggle, filterVars, cleanerVars>>

----------------------------------------------------------------------------
(* Specifications                                                          *)

FilterSpecInit == FilterInit /\ CleanerIdle /\ AppIdle

EngineInit == FilterIdle /\ CleanerInit /\ AppIdle

AppSpecInit ==
    /\ FilterIdle
    /\ fs \in AppHosts
    /\ op = NoOp
    /\ nExt = 0
    /\ cleaner = WindowsCleaner(HostEnviron)
    /\ system = "Windows"
    /\ AppInit

\* A host of any system, with any of the three variables missing.
HostSpecInit ==
    /\ FilterIdle
    /\ fs = InitFs
    /\ op = NoOp
    /\ nExt = 0
    /\ cleaner \in {WindowsCleaner(environ) : environ \in Environs}
    /\ system \in Systems
    /\ AppIdle

\* A host with three files in the user's temporary directory: a log in a
\* subdirectory, a backup whose name matches two patterns, a data file.
PipelineFiles ==
    { Join(temp_dir, <<"sub", "/", "d", ".", "log">>),
      Join(temp_dir, <<"~", "x", ".", "tmp">>),
      Join(temp_dir, <<"a", ".", "dat">>) }

PipelineSpecInit ==
    /\ FilterIdle
    /\ fs = HostWith(PipelineFiles)
    /\ op = NoOp
    /\ nExt = 0
    /\ cleaner = WindowsCleaner(HostEnviron)
    /\ system = "Windows"
    /\ AppIdle

FilterNext == FilterCall

ScanNext ==
    \/ ScanCategoryCall
    \/ GetCategoriesCall
    \/ ExtDelete
    \/ ExtLock
    \/ ExtReplace

CleanNext ==
    \/ CleanFilesCall
    \/ CleanFilesAgain
    \/ ExtDelete
    \/ ExtLock
    \/ ExtReplace

WalkNext ==
    \/ ScanCategoryCall
    \/ ExtFault
    \/ ExtDelete

RecoverNext ==
    \/ CleanFilesCall
    \/ ExtFault
    \/ ExtLock

PipelineNext ==
    \/ ScanCategoryCall
    \/ CleanScannedCall
    \/ ExtLock
    \/ ExtDelete

ParseNext == ParseSizeCall

HostNext ==
    \/ ScanCategoryCall
    \/ EmptyRecycleBinCall
    \/ ExtDelete

AppNext ==
    \/ TimerFires
    \/ ClickRescan
    \/ ToggleCategory
    \/ ScanBegin
    \/ ScanStep
    \/ ScanFinish
    \/ ScanFinally
    \/ ClickClean
    \/ AnswerNo
    \/ AnswerYes
    \/ CleanBegin
    \/ CleanStep
    \/ CleanDone
    \/ DismissInfo
    \/ DismissError
    \/ CleanFinally

\* The Safety Filter alone, on every input path.
SpecFilter == FilterSpecInit /\ [][FilterNext]_vars

\* scan_category on a filesystem other processes change.
SpecScan == EngineInit /\ [][ScanNext]_vars

\* clean_files on a filesystem other processes changed.
SpecClean == EngineInit /\ [][CleanNext]_vars

\* scan_category on a filesystem parts of which cannot be read.
SpecWalk == EngineInit /\ [][WalkNext]_vars

\* clean_files on a filesystem parts of which cannot be read or removed.
SpecRecover == EngineInit /\ [][RecoverNext]_vars

\* scan_category and empty_recycle_bin on hosts of any kind.
SpecHost == HostSpecInit /\ [][HostNext]_vars

\* scan_category, then clean_files on the list it returned.
SpecPipeline == PipelineSpecInit /\ [][PipelineNext]_vars

\* parse_size on every size string.
SpecParse == EngineInit /\ [][ParseNext]_vars

\* The application: the user, the timers and the worker threads.
SpecApp == AppSpecInit /\ [][AppNext]_vars

----------------------------------------------------------------------------
(* Properties                                                              *)

RECURSIVE SumSeq(_)
SumSeq(s) == IF s = <<>> THEN 0 ELSE Head(s) + SumSeq(Tail(s))

\* The entries of the list the last engine call returned or was given.
OpIdx == 1..Len(op.files)

\* The log line of a clean_files call before line i: the counters at zero
\* before the first.
LineBefore(log, i) ==
    IF i = 1 THEN [removed |-> 0, size_freed |-> 0, errors |-> 0]
    ELSE [removed |-> log[i - 1].removed, size_freed |-> log[i - 1].size_freed,
          errors |-> log[i - 1].errors]

SetupExe == Join(temp_dir, <<"setup", ".", "exe">>)

\* C1: every path scan_category returns was accepted by the Safety Filter
\* when it was scanned, whatever the category (the thumbnail and icon cache
\* scan and the browser cache scan included).
C1_ScanReturnsOnlySafe ==
    op.name = "scan" =>
        \A i \in OpIdx : SafeCall(Path(op.files[i]), 0) = Return(TRUE)

\* A scan of the user temp directory returned files while the directory
\* held an installer, which is not among them; and a scan of the Windows
\* cache returned the icon cache.
C1_Witness ==
    /\ op.name = "scan"
    /\ \/ /\ op.arg = "temp_user"
          /\ op.files # <<>>
          /\ op.before[SetupExe].kind = "file"
          /\ \A i \in OpIdx : op.files[i] # StrOf(SetupExe)
       \/ /\ op.arg = "windows_cache"
          /\ \E i \in OpIdx : op.files[i] = StrOf(icon_cache(local_app_data))

\* C2: clean_files asks the Safety Filter again for every entry; an entry
\* that exists and is rejected is passed to neither removal function, still
\* exists when clean_files returns, and adds exactly one to error_count.
C2_RejectedEntrySurvives ==
    op.name = "clean" =>
        \A i \in 1..Len(op.log) :
            (op.log[i].existed /\ ~op.log[i].safe) =>
                /\ op.log[i].call = "none"
                /\ op.log[i].errors = LineBefore(op.log, i).errors + 1
                /\ StateOf(fs, Path(op.log[i].entry)).kind # "absent"

\* The folded parts of p start with those of the directory d, or are them.
AtOrBelow(p, d) ==
    /\ Len(p) >= Len(d)
    /\ \A k \in 1..Len(d) : Lower(p[k]) = Lower(d[k])

\* C3: _is_safe_to_delete answers False for a path that is a protected
\* directory or has one among its ancestors.
C3_ProtectedDirsRejected ==
    (fResult.kind # "none" /\ \E d \in protected_dirs : AtOrBelow(fPath, d)) =>
        fResult = Return(FALSE)

\* A path two levels or more below a protected directory, with no protected
\* extension and no System32 in its text, was rejected without any fault.
C3_Witness ==
    /\ fResult = Return(FALSE)
    /\ fFault = 0
    /\ \E d \in protected_dirs : AtOrBelow(fPath, d) /\ Len(fPath) >= Len(d) + 2
    /\ ~Rule2(fPath)
    /\ ~Rule3(fPath)

\* The name ends with a dot and a protected extension in any letter case,
\* after a stem that is not empty.
HasProtectedExtension(p) ==
    LET n == Name(p)
    IN  /\ Len(n) >= 3
        /\ n[Len(n) - 1] = "."
        /\ \E e \in protected_extensions : Lower(<<n[Len(n)]>>) = Tail(e)

\* C4: _is_safe_to_delete answers False for a path whose extension is a
\* protected one, compared without regard to case, wherever the path is.
C4_ProtectedExtensionsRejected ==
    (fResult.kind # "none" /\ HasProtectedExtension(fPath)) => fResult = Return(FALSE)

\* A file with an upper-case protected extension, outside every protected
\* directory and with no System32 in its text, was rejected without any fault.
C4_Witness ==
    /\ fResult = Return(FALSE)
    /\ fFault = 0
    /\ HasProtectedExtension(fPath)
    /\ Suffix(fPath) \notin protected_extensions
    /\ ~Rule1(fPath)
    /\ ~Rule3(fPath)

\* C5: the filter fails closed.  No exception reaches the caller; when the
\* evaluation of a rule raises the answer is False; the answer is True only
\* when the three rules were evaluated without error and none matched.
C5_FailClosed ==
    /\ fResult.kind \in {"none", "return"}
    /\ (fResult.kind = "return" /\ fFault # 0) => fResult.val = FALSE
    /\ (fResult.kind = "return" /\ fResult.val) =>
           /\ fFault = 0
           /\ ~Rule1(fPath) /\ ~Rule2(fPath) /\ ~Rule3(fPath)

\* The third rule raised on a path no rule matches: the answer was False.
C5_Witness ==
    /\ fResult = Return(FALSE)
    /\ fFault = 3
    /\ ~Rule1(fPath) /\ ~Rule2(fPath) /\ ~Rule3(fPath)

ScanInFlight  == scanT.pc # "idle"
CleanInFlight == cleanT.pc # "idle"

\* C6: at most one scan or clean operation is in flight at any time, a timer
\* that fires while the confirmation dialog is open included.
C6_OneOperationInFlight == ~(ScanInFlight /\ CleanInFlight)

\* C7: the total size scan_category returns is the sum of the sizes of the
\* entries of the list it returns, taken when the scan ran.
C7_TotalIsSumOfSizes ==
    op.name = "scan" =>
        op.total_size = SumSeq([i \in OpIdx |->
                                   SizeAt(op.before, NodeOf(op.before, Path(op.files[i])))])

\* A scan of a category with several roots and patterns returned several
\* entries of different sizes.
C7_Witness ==
    /\ op.name = "scan"
    /\ op.arg = "old_files"
    /\ Len(op.files) >= 3
    /\ \E i, j \in OpIdx :
           /\ op.before[Path(op.files[i])].size > 0
           /\ op.before[Path(op.files[j])].size > op.before[Path(op.files[i])].size
    /\ op.total_size > 0

\* The regular files below the user temp directory that the filter accepts.
SafeTempFiles(f) ==
    {n \in DOMAIN f : /\ IsUnder(n, temp_dir)
                       /\ f[n].kind = "file"
                       /\ SafeCall(n, 0) = Return(TRUE)}

C9_UnknownCategoryIsEmpty ==
    (op.name = "scan" /\ op.arg \notin {Categories[i] : i \in 1..Len(Categories)}) =>
        /\ op.files = <<>>
        /\ op.total_size = 0
        /\ op.proc = "none"

\* scan_category was called with the id of a category in other letter case.
C9_Witness ==
    /\ op.name = "scan"
    /\ op.arg = "TEMP_USER"
    /\ op.files = <<>>

\* C10: an entry whose path does not exist when its turn comes is skipped:
\* no removal function is called and no counter changes.
C10_MissingEntrySkipped ==
    op.name = "clean" =>
        \A i \in 1..Len(op.log) :
            ~op.log[i].existed =>
                /\ op.log[i].call = "none"
                /\ op.log[i].removed = LineBefore(op.log, i).removed
                /\ op.log[i].size_freed = LineBefore(op.log, i).size_freed
                /\ op.log[i].errors = LineBefore(op.log, i).errors

\* A list of three different files, one of which another process had
\* deleted before the call: two removed, no error.
C10_Witness ==
    /\ op.name = "clean"
    /\ op.round = 1
    /\ Len(op.files) = 3
    /\ Cardinality({op.files[i] : i \in OpIdx}) = 3
    /\ Cardinality({i \in OpIdx : op.before[Path(op.files[i])].kind = "absent"}) = 1
    /\ \A i \in OpIdx : InitFs[Path(op.files[i])].kind = "file"
    /\ op.removed = 2
    /\ op.errors = 0

\* The lines of the log of the last clean_files call.
LogIdx == 1..Len(op.log)

\* The path of line i of the log.
EntryPath(i) == Path(op.log[i].entry)

\* C11: an entry that exists and passes the Safety Filter has its size
\* captured and is handed to safe_remove_file when it is a file and to
\* safe_remove_dir otherwise; success adds one to removed and the captured
\* size to size_freed, failure adds one to errors.  After the call
\* removed + errors + skipped entries is the length of the list and
\* size_freed is the sum of the captured sizes of the removed entries.
C11_RemovalAccounting ==
    op.name = "clean" =>
        /\ Len(op.log) = Len(op.files)
        /\ \A i \in LogIdx :
               (op.log[i].existed /\ op.log[i].safe) =>
                   /\ op.log[i].call = IF IsFile(op.before, EntryPath(i))
                                       THEN "safe_remove_file" ELSE "safe_remove_dir"
                   /\ IsFile(op.before, EntryPath(i)) =>
                          op.log[i].size = StateOf(op.before, EntryPath(i)).size
                   /\ i = 1 => op.log[i].size = get_file_size(op.before, EntryPath(i))
                   /\ op.log[i].removed =
                          LineBefore(op.log, i).removed + (IF op.log[i].ok THEN 1 ELSE 0)
                   /\ op.log[i].size_freed =
                          LineBefore(op.log, i).size_freed
                              + (IF op.log[i].ok THEN op.log[i].size ELSE 0)
                   /\ op.log[i].errors =
                          LineBefore(op.log, i).errors + (IF op.log[i].ok THEN 0 ELSE 1)
        /\ op.removed + op.errors + Cardinality({i \in LogIdx : ~op.log[i].existed})
               = Len(op.files)
        /\ op.size_freed =
               SumSeq([i \in LogIdx |-> IF op.log[i].ok THEN op.log[i].size ELSE 0])

\* One call removed a directory that held files, failed to remove a file in
\* use, and freed space.
C11_Witness ==
    /\ op.name = "clean"
    /\ \E i \in LogIdx :
           op.log[i].call = "safe_remove_dir" /\ op.log[i].ok /\ op.log[i].size > 0
    /\ \E i \in LogIdx : op.log[i].call = "safe_remove_file" /\ ~op.log[i].ok
    /\ op.size_freed > 0
    /\ op.errors > 0

\* C12: clean_files handles every entry of its list: a failed removal or
\* an exception at one entry adds one error and the loop goes on, so a
\* file that can be removed is removed whatever happened before it, and
\* the call returns its three counters.
C12_NeverAborts ==
    op.name = "clean" =>
        /\ ~op.raised
        /\ Len(op.log) = Len(op.files)
        /\ \A i \in LogIdx :
               /\ op.log[i].entry = op.files[i]
               /\ op.log[i].call = "raise" =>
                      /\ op.log[i].errors = LineBefore(op.log, i).errors + 1
                      /\ op.log[i].removed = LineBefore(op.log, i).removed
               /\ op.log[i].call = "safe_remove_file" =>
                      op.log[i].ok = ~StateOf(op.before, EntryPath(i)).locked
        /\ op.removed = Cardinality({i \in LogIdx : op.log[i].ok})
        /\ op.errors = Cardinality({i \in LogIdx : op.log[i].existed /\ ~op.log[i].ok})

\* An entry raised, a later entry could not be removed, and an entry after
\* both was removed by the same call.
C12_Witness ==
    /\ op.name = "clean"
    /\ \E i, j, k \in LogIdx :
           /\ i < j /\ j < k
           /\ op.log[i].call = "raise"
           /\ op.log[j].call # "raise" /\ op.log[j].call # "none" /\ ~op.log[j].ok
           /\ op.log[k].ok
    /\ op.errors = 2
    /\ op.removed = 1

\* C13: a second clean_files call with the same list, nothing else having
\* changed the filesystem in between, removes nothing, and an entry the
\* first call removed is skipped as missing without an error.
C13_SecondCallRemovesNothing ==
    (op.name = "clean" /\ op.round = 2) =>
        /\ op.removed = 0
        /\ op.size_freed = 0
        /\ \A i \in LogIdx :
               op.prev[i].ok =>
                   /\ ~op.log[i].existed
                   /\ op.log[i].call = "none"
                   /\ op.log[i].errors = LineBefore(op.log, i).errors

\* The first call removed an entry and failed on another; the second call
\* fails on that one again.
C13_Witness ==
    /\ op.name = "clean"
    /\ op.round = 2
    /\ \E i \in LogIdx : op.prev[i].ok /\ op.prev[i].size > 0
    /\ \E i \in LogIdx : ~op.prev[i].ok /\ op.prev[i].call # "none"
    /\ op.errors > 0

\* C14: an entry that clean_files skips, because it does not exist or
\* because the Safety Filter rejects it, adds nothing to size_freed and
\* nothing to removed.
C14_SkippedFreesNothing ==
    op.name = "clean" =>
        \A i \in LogIdx :
            (~op.log[i].existed \/ ~op.log[i].safe) =>
                /\ op.log[i].call = "none"
                /\ op.log[i].size_freed = LineBefore(op.log, i).size_freed
                /\ op.log[i].removed = LineBefore(op.log, i).removed

\* A call skipped an installer of 70 bytes that exists and is rejected, and
\* a path that no longer exists, next to an entry it removed.
C14_Witness ==
    /\ op.name = "clean"
    /\ op.round = 1
    /\ \E i \in LogIdx :
           /\ op.log[i].existed /\ ~op.log[i].safe
           /\ get_file_size(fs, EntryPath(i)) = 70
    /\ \E i \in LogIdx : ~op.log[i].existed
    /\ op.removed = 1
    /\ op.size_freed > 0

\* The categories that read the root of each environment variable alone.
ScansOfTemp  == {"temp_user"}
ScansOfLocal == {"browser_cache", "windows_cache"}
ScansOfRoaming == {"recent_files"}

\* C15: when TEMP, LOCALAPPDATA or APPDATA is not defined, the scans that
\* depend on the missing root return nothing for it: the categories that
\* read only that root return the empty list and size 0, and no category
\* returns a path found from another directory (a path relative to the
\* directory the program was started in).
C15_MissingRootScansNothing ==
    op.name = "scan" =>
        /\ (cleaner.temp_dir = <<>> /\ op.arg \in ScansOfTemp) =>
               op.files = <<>> /\ op.total_size = 0
        /\ (cleaner.local_app_data = <<>> /\ op.arg \in ScansOfLocal) =>
               op.files = <<>> /\ op.total_size = 0
        /\ (cleaner.app_data = <<>> /\ op.arg \in ScansOfRoaming) =>
               op.files = <<>> /\ op.total_size = 0
        /\ ~op.raised
        /\ \A i \in OpIdx : IsAbs(Path(op.files[i]))

\* C16: the scan thread scans every category it was started with: no
\* error met by a scan procedure stops the loop, so when the thread reaches
\* its end nothing is left to scan and every category has its record.
C16_ScanThreadCompletes ==
    scanT.pc = "finally" => scanT.left = <<>>

\* C17: empty_recycle_bin returns a boolean whatever the system and whatever
\* the shell call does, and never raises; it returns False when the call
\* cannot be made (ctypes is not loaded) or raises.
C17_RecycleBinBestEffort ==
    op.name = "trash" =>
        /\ op.result.kind = "return"
        /\ op.result.val \in BOOLEAN
        /\ (system # "Windows" \/ op.arg = "raise") => op.result.val = FALSE
        /\ (system = "Windows" /\ op.arg # "raise") => op.result.val = TRUE

\* The call was made where ctypes is not loaded, or raised, and False came
\* back.
C17_Witness ==
    /\ op.name = "trash"
    /\ op.result = Return(FALSE)
    /\ \/ system = "Linux" /\ op.arg = "S_OK"
       \/ system = "Windows" /\ op.arg = "raise"

\* The eight ids, as the specification lists them.
EightIds ==
    <<"temp_user", "temp_windows", "prefetch", "browser_cache",
      "windows_cache", "recent_files", "log_files", "old_files">>

\* C18: get_categories returns the same eight ids in the same order on
\* every call, whatever happened before, and scan_category runs a scan
\* procedure for exactly these ids: the procedure of the id.
C18_CategoriesFixed ==
    /\ op.name = "categories" => op.files = EightIds
    /\ op.name = "scan" =>
           /\ op.proc # "none" <=> \E i \in 1..Len(EightIds) : EightIds[i] = op.arg
           /\ op.proc # "none" => op.proc = op.arg

\* get_categories was called after other processes changed the filesystem.
C18_Witness ==
    /\ op.name = "categories"
    /\ Len(op.files) = 8
    /\ nExt > 0

\* The names whose reading fails in the filesystem a scan found.
Faulty(f) == {n \in DOMAIN f : f[n].kind # "absent" /\ f[n].err # "none"}

\* C19: when a subdirectory of the scan root cannot be read during the
\* walk, whatever the error, only that subtree is skipped: every safe
\* regular file of the root outside the subtree is in the result, those the
\* walk visits after the subdirectory included.
C19_WalkContinuesPastErrors ==
    (/\ op.name = "scan"
     /\ op.arg = "temp_user"
     /\ \A m \in Faulty(op.before) : op.before[m].kind = "dir") =>
        \A n \in SafeTempFiles(op.before) :
            (\A m \in Faulty(op.before) : ~IsUnder(n, m)) =>
                \E i \in OpIdx : op.files[i] = StrOf(n)

\* C20: every path scan_category returns is a regular file when it is
\* scanned, in every category, the thumbnail cache and the icon cache of
\* windows_cache included.
C20_OnlyRegularFiles ==
    op.name = "scan" =>
        \A i \in OpIdx : IsFile(op.before, Path(op.files[i]))

\* The nodes the list of the last clean_files call names, in the filesystem
\* the call found.
Named == {NodeOf(op.before, Path(op.files[i])) : i \in OpIdx}

\* C21: clean_files changes nothing but the entries its list names: every
\* other name of the filesystem is after the call what it was before,
\* whether the entries are files or directories when the call is made.
C21_OnlyListedEntriesChange ==
    op.name = "clean" =>
        \A n \in DOMAIN fs : n \notin Named => fs[n] = op.before[n]

\* The removal of the entry of log line i was attempted.
Attempted(i) == op.log[i].call \in {"safe_remove_file", "safe_remove_dir"}

\* C22: within one clean_files call the removal of a file is attempted at
\* most once, also when the list is the result of a scan over several
\* patterns or roots: a file whose removal failed is not tried again and is
\* counted as one error.
C22_AttemptedOnce ==
    op.name = "clean" =>
        \A i \in LogIdx : \A j \in LogIdx :
            (i < j /\ Attempted(i) /\ SameFile(EntryPath(i), EntryPath(j))) =>
                /\ ~Attempted(j)
                /\ op.log[j].errors = op.log[j - 1].errors

\* The temporary file of the application's host.
AppTempFile == Join(temp_dir, <<"a", ".", "dat">>)

\* C23: no file is deleted without confirmation.  The filesystem changes
\* only in a step of the clean worker, the worker is started only by the
\* answer yes to the confirmation dialog of the request, and the answer no
\* starts no worker and leaves is_cleaning, scan_results and the two buttons
\* as they were.
C23_NoDeletionWithoutConfirmation ==
    [][ /\ fs' # fs => (cleanT.pc = "clean" /\ dialog = "yes")
        /\ (cleanT.pc = "idle" /\ cleanT'.pc # "idle") =>
               (dialog = "confirm" /\ dialog' = "yes")
        /\ (dialog = "confirm" /\ dialog' = "no") =>
               /\ cleanT' = Idle
               /\ ~is_cleaning'
               /\ UNCHANGED <<is_cleaning, scan_results, clean_btn, rescan_btn>> ]_vars

\* The user declined the removal of the files a scan had found: they are
\* still there, no worker runs and the clean button is still enabled.
C23_Witness ==
    /\ dialog = "no"
    /\ scan_complete
    /\ \E i \in 1..Len(scan_results) : scan_results[i].files # <<>>
    /\ fs[AppTempFile].kind = "file"
    /\ cleanT = Idle
    /\ ~is_cleaning
    /\ clean_btn = "normal"

\* C24: while a scan or a clean is in flight both buttons are disabled, and
\* when a worker has ended, normally or through an exception, its busy flag
\* is down and the rescan button is enabled again.
C24_BusyUntilWorkerEnds ==
    /\ (is_scanning \/ is_cleaning) =>
           (clean_btn = "disabled" /\ rescan_btn = "disabled")
    /\ scanT.pc = "idle" => ~is_scanning
    /\ cleanT.pc = "idle" => ~is_cleaning
    /\ (~is_scanning /\ ~is_cleaning) => rescan_btn = "normal"

\* C25: clean_files removes no name the Safety Filter rejects at clean
\* time: nothing with a protected extension and nothing in a protected
\* directory disappears, the contents of a directory that is removed
\* recursively included.
C25_OnlySafeNamesRemoved ==
    op.name = "clean" =>
        \A n \in DOMAIN fs :
            (op.before[n].kind # "absent" /\ fs[n].kind = "absent") =>
                _is_safe_to_delete(n)

\* C26: the list scan_category returns holds no path twice, whatever the
\* number of patterns a name matches and of roots it lies below.
C26_NoPathTwice ==
    op.name = "scan" =>
        \A i \in OpIdx : \A j \in OpIdx : i # j => op.files[i] # op.files[j]

RECURSIVE FilesIn(_)
\* The number of files in a dict of scan results.
FilesIn(d) == IF d = <<>> THEN 0 ELSE Len(Head(d).files) + FilesIn(Tail(d))

\* C27: the clean button is enabled only when the last scan completed
\* without exception and found a file, scan_results holds what it found and
\* no clean is in flight; it is disabled from the start of a scan and of a
\* clean until such a scan completes.
C27_CleanButtonEnabledOnlyAfterScan ==
    /\ clean_btn = "normal" =>
           /\ scan_complete
           /\ FilesIn(scan_results) > 0
           /\ ~is_cleaning
           /\ cleanT.pc = "idle"
    /\ scanT.pc \in {"begin", "scan", "finish"} => clean_btn = "disabled"
    /\ cleanT.pc \in {"begin", "clean", "done", "info", "error"} => clean_btn = "disabled"

\* The non-empty file lists of a dict of scan results, in key order.
ListsOf(d) == [i \in 1..Len(SelectSeq(d, LAMBDA item : item.files # <<>>)) |->
                  SelectSeq(d, LAMBDA item : item.files # <<>>)[i].files]

\* C28: a scan result is cleaned at most once.  The clean worker passes to
\* clean_files the lists scan_results held when the user confirmed, and when
\* its pass ends without exception scan_results is empty and scan_complete
\* false, and a new scan is scheduled; a clean starts only after a scan that
\* completed since.
C28_ScanResultCleanedOnce ==
    [][ /\ (cleanT.pc = "done" /\ cleanT'.pc = "info") =>
               /\ cleanT.cleaned = ListsOf(cleanT.confirmed)
               /\ scan_results' = <<>>
               /\ ~scan_complete'
        /\ (cleanT.pc = "info" /\ cleanT'.pc = "finally") => timers' = timers + 1
        /\ (cleanT.pc = "idle" /\ cleanT'.pc = "begin") => scan_complete ]_vars

\* C29: parse_size turns '<number> <unit>', the unit one of B, KB, MB, GB
\* and TB, into the number times 1, 1024, 1024^2, 1024^3, 1024^4, for every
\* non-negative integer; it returns 0 only for a string it cannot parse.
C29_ParseSizeConverts ==
    op.name = "parse" =>
        \A num \in SizeNumbers : \A i \in 1..Len(units) :
            op.size_str = num.text \o <<" ">> \o units[i].unit =>
                op.result = Return(Shift(FromInt(num.n), i - 1))

====
